---- MODULE Spec2Model ----
(***************************************************************************)
(* A model of the grid maze library (maze.go): the disjoint-set structure, *)
(* the grid, the spanning-tree generator, the wall eroder and the solver.  *)
(* Cells are numbered 0 .. width*height-1 in row-major order as in the Go   *)
(* slice m.cells; wall directions are 0 = left, 1 = top, 2 = right,         *)
(* 3 = bottom; cell states are 0 = normal, 1 = solutionPath, 2 = excluded.  *)
(***************************************************************************)
EXTENDS Integers, Sequences, FiniteSets, TLC

\* ---------------------------------------------------------------- bounds
MaxWidth == 3
MaxHeight == 3
MaxCells == 9
MaxSeed == 2
MaxExcluded == 1
MaxCandidates == 1
\* The width in bits of the machine integer (Go's int), scaled down.
IntBits == 5
\* Construction alone is explored with richer templates on small grids.
MaxTemplateCells == 4
MaxChoices == 2
\* The disjoint-set structure on its own: the number of nodes, and the rank
\* above which no further union is tried.
MaxNodes == 4
MaxRank == 3
\* The 16-bit colour channel is sampled at MaxChannelStep + 1 even steps.
MaxChannelStep == 5

Seeds == 1..MaxSeed

Dirs == 0..3

\* Stands for a nil pointer / the -1 "no index" sentinel of the Go code.
NoIndex == 0 - 1

\* The largest int, and the int an arithmetic result wraps around to.
MaxInt == (2 ^ (IntBits - 1)) - 1

wrapInt(x) ==
    IF (x % (2 ^ IntBits)) > MaxInt THEN (x % (2 ^ IntBits)) - (2 ^ IntBits)
    ELSE x % (2 ^ IntBits)

\* ------------------------------------------------------ random generator
\* rand.New(rand.NewSource(seed)): a deterministic stream that depends on
\* the seed only.  The stream is a small linear congruential generator.
rngSource(seed) == seed % 101

rngNext(s) == (s * 37 + 11) % 101

\* rng.Intn(n): advances the generator and returns a value in 0..n-1.
Intn(s, n) == [rng |-> rngNext(s), val |-> rngNext(s) % n]

\* ---------------------------------------------------------- disjoint set
\* A disjoint-set node is identified with the cell that owns it; dj.parent
\* and dj.rank are the fields of the nodes.

\* newDisjointSet for every cell of a grid of n cells.
newDisjointSet(n) == [parent |-> [i \in 0..(n - 1) |-> i],
                      rank |-> [i \in 0..(n - 1) |-> 0]]

\* compressPath that leaves s.parent as it is.
compressPathNone(r, s) == r

\* findSet, the assignment "s.parent = s.parent.findSet()": r is the result
\* of the recursive call.
compressPath(r, s) ==
    [parent |-> [r.parent EXCEPT ![s] = r.root], root |-> r.root]

\* findSet with path compression: returns the root and the new parents.
RECURSIVE findSet(_, _)
findSet(parent, s) ==
    IF s # parent[s]
    THEN compressPath(findSet(parent, parent[s]), s)
    ELSE [parent |-> parent, root |-> parent[s]]

\* linkRoots that always puts x under y, whatever the ranks are.
linkRootsUnranked(dj, p, x, y) ==
    [parent |-> [p EXCEPT ![x] = y],
     rank |-> IF dj.rank[x] = dj.rank[y]
              THEN [dj.rank EXCEPT ![y] = dj.rank[y] + 1]
              ELSE dj.rank]

\* union after its two findSet calls: x and y are the two roots, p the
\* parents after both compressions.
linkRoots(dj, p, x, y) ==
    IF dj.rank[x] > dj.rank[y]
    THEN [parent |-> [p EXCEPT ![y] = x], rank |-> dj.rank]
    ELSE [parent |-> [p EXCEPT ![x] = y],
          rank |-> IF dj.rank[x] = dj.rank[y]
                   THEN [dj.rank EXCEPT ![y] = dj.rank[y] + 1]
                   ELSE dj.rank]

\* union after "x := s.findSet()" (fx).
unionWith(dj, fx, fy) == linkRoots(dj, fy.parent, fx.root, fy.root)

unionFrom(dj, fx, other) == unionWith(dj, fx, findSet(fx.parent, other))

union(dj, s, other) == unionFrom(dj, findSet(dj.parent, s), other)

\* cellA.djSet.findSet() == cellB.djSet.findSet(), keeping the compression.
sameRoots(fa, fb) == [parent |-> fb.parent, same |-> (fa.root = fb.root)]

sameSetFrom(fa, b) == sameRoots(fa, findSet(fa.parent, b))

sameSet(parent, a, b) == sameSetFrom(findSet(parent, a), b)

\* ------------------------------------------------------------- generator
\* initGridMazeCell that resets the disjoint set only.
initGridMazeCellKeepsWalls(wl) == wl

\* initGridMazeCell applied to every cell of m.cells: all four walls are set
\* whatever they were (wl is the wall array before the call).
initGridMazeCell(wl) == [i \in DOMAIN wl |-> [d \in Dirs |-> TRUE]]

\* cellNeighbors that takes every cell whose state is not normal for an
\* excluded one.
cellNeighborsSkipMarked(w, h, st, index) ==
    LET col == index % w
        row == index \div w
        right == IF (col # (w - 1)) /\ (st[index + 1] = 0)
                 THEN <<[baseIndex |-> index, neighborDirection |-> 2]>>
                 ELSE <<>>
        down == IF (row # (h - 1)) /\ (st[index + w] = 0)
                THEN <<[baseIndex |-> index, neighborDirection |-> 3]>>
                ELSE <<>>
    IN IF st[index] # 0 THEN <<>> ELSE right \o down

\* cellNeighbors that does not look at the state of the neighbor.
cellNeighborsToExcluded(w, h, st, index) ==
    LET col == index % w
        row == index \div w
        right == IF col # (w - 1)
                 THEN <<[baseIndex |-> index, neighborDirection |-> 2]>>
                 ELSE <<>>
        down == IF row # (h - 1)
                THEN <<[baseIndex |-> index, neighborDirection |-> 3]>>
                ELSE <<>>
    IN IF st[index] = 2 THEN <<>> ELSE right \o down

\* cellNeighbors with the entry for the neighbor below also skipped in the
\* rightmost column.
cellNeighborsNoDownInLastColumn(w, h, st, index) ==
    LET col == index % w
        row == index \div w
        right == IF (col # (w - 1)) /\ (st[index + 1] # 2)
                 THEN <<[baseIndex |-> index, neighborDirection |-> 2]>>
                 ELSE <<>>
        down == IF (row # (h - 1)) /\ (col # (w - 1)) /\ (st[index + w] # 2)
                THEN <<[baseIndex |-> index, neighborDirection |-> 3]>>
                ELSE <<>>
    IN IF st[index] = 2 THEN <<>> ELSE right \o down

\* The entries initDisjointNeighbors appends for the cell at index.
cellNeighbors(w, h, st, index) ==
    LET col == index % w
        row == index \div w
        right == IF (col # (w - 1)) /\ (st[index + 1] # 2)
                 THEN <<[baseIndex |-> index, neighborDirection |-> 2]>>
                 ELSE <<>>
        down == IF (row # (h - 1)) /\ (st[index + w] # 2)
                THEN <<[baseIndex |-> index, neighborDirection |-> 3]>>
                ELSE <<>>
    IN IF st[index] = 2 THEN <<>> ELSE right \o down

RECURSIVE neighborsFrom(_, _, _, _)
neighborsFrom(w, h, st, index) ==
    IF index >= w * h THEN <<>>
    ELSE cellNeighbors(w, h, st, index) \o neighborsFrom(w, h, st, index + 1)

\* initCount of initDisjointNeighbors.
initCount(w, h) == wrapInt(((w - 1) * h) + ((h - 1) * w))

\* initDisjointNeighbors panics: make with a negative capacity, or an index
\* past the end of m.cells (n cells) in its loops over width and height.
initPanics(w, h, n) ==
    (initCount(w, h) # 0) /\ ((initCount(w, h) < 0) \/ (n < w * h))

\* initDisjointNeighbors: the new value of m.neighbors (old is the value
\* before the call, kept when the grid is 1x1).
initDisjointNeighbors(w, h, st, old) ==
    IF initCount(w, h) = 0 THEN old
    ELSE neighborsFrom(w, h, st, 0)

\* neighborIndex that knows the neighbor to the right only.
neighborIndexRightOnly(w, n) ==
    IF n.neighborDirection = 2 THEN n.baseIndex + 1 ELSE NoIndex

\* neighborIndex: NoIndex stands for the returned error.
neighborIndex(w, n) ==
    IF n.neighborDirection = 2 THEN n.baseIndex + 1
    ELSE IF n.neighborDirection = 3 THEN n.baseIndex + w
    ELSE NoIndex

\* removeEntry that shortens the list without moving the last entry into
\* position i first.
removeEntryDropLast(nbrs, i) == SubSeq(nbrs, 1, Len(nbrs) - 1)

\* The removal "m.neighbors[i] = m.neighbors[len-1]; m.neighbors =
\* m.neighbors[:len-1]" for the 0-based position i.
removeEntry(nbrs, i) ==
    SubSeq([nbrs EXCEPT ![i + 1] = nbrs[Len(nbrs)]], 1, Len(nbrs) - 1)

\* updateDisjointNeighbors from position i (0-based) of the list;
\* updateEntry is one iteration once the two roots are compared (ss).
RECURSIVE updateDisjointNeighbors(_, _, _, _)
RECURSIVE updateEntry(_, _, _, _)
updateEntry(w, nbrs, i, ss) ==
    IF ~ss.same
    THEN updateDisjointNeighbors(w, ss.parent, nbrs, i + 1)
    ELSE updateDisjointNeighbors(w, ss.parent, removeEntry(nbrs, i), i)

updateDisjointNeighbors(w, parent, nbrs, i) ==
    IF i >= Len(nbrs) THEN [parent |-> parent, neighbors |-> nbrs, err |-> FALSE]
    ELSE IF neighborIndex(w, nbrs[i + 1]) = NoIndex
    THEN [parent |-> parent, neighbors |-> nbrs, err |-> TRUE]
    ELSE updateEntry(w, nbrs, i,
                     sameSet(parent, nbrs[i + 1].baseIndex,
                             neighborIndex(w, nbrs[i + 1])))

\* sampleResult that returns the drawn entry whatever the two roots are.
sampleResultAlways(r, ss) ==
    [parent |-> ss.parent, rng |-> r.rng, pick |-> r.val, err |-> FALSE]

\* sampleNeighbor: pick is the 0-based index of the returned entry, NoIndex
\* for nil.  r is the draw, ss the comparison of the two roots.
sampleResult(r, ss) ==
    [parent |-> ss.parent, rng |-> r.rng,
     pick |-> IF ss.same THEN NoIndex ELSE r.val, err |-> FALSE]

sampleEntry(w, parent, r, toReturn) ==
    IF neighborIndex(w, toReturn) = NoIndex
    THEN [parent |-> parent, rng |-> r.rng, pick |-> NoIndex, err |-> TRUE]
    ELSE sampleResult(r, sameSet(parent, toReturn.baseIndex,
                                 neighborIndex(w, toReturn)))

sampleDrawn(w, parent, nbrs, r) == sampleEntry(w, parent, r, nbrs[r.val + 1])

sampleNeighbor(w, parent, nbrs, rng) ==
    sampleDrawn(w, parent, nbrs, Intn(rng, Len(nbrs)))

\* getDisjointNeighbor: (pick, done, err) and the updated list, sets and rng.
\* s2 is the second sample, u the result of updateDisjointNeighbors, s1 the
\* first sample.
secondSample(nbrs, s2) ==
    [parent |-> s2.parent, neighbors |-> nbrs, rng |-> s2.rng,
     pick |-> s2.pick, done |-> FALSE, err |-> s2.err]

afterUpdate(w, rng, u) ==
    IF u.err
    THEN [parent |-> u.parent, neighbors |-> u.neighbors, rng |-> rng,
          pick |-> NoIndex, done |-> FALSE, err |-> TRUE]
    ELSE IF Len(u.neighbors) = 0
    THEN [parent |-> u.parent, neighbors |-> u.neighbors, rng |-> rng,
          pick |-> NoIndex, done |-> TRUE, err |-> FALSE]
    ELSE secondSample(u.neighbors,
                      sampleNeighbor(w, u.parent, u.neighbors, rng))

afterFirstSample(w, nbrs, s1) ==
    IF s1.err \/ s1.pick # NoIndex
    THEN [parent |-> s1.parent, neighbors |-> nbrs, rng |-> s1.rng,
          pick |-> s1.pick, done |-> FALSE, err |-> s1.err]
    ELSE afterUpdate(w, s1.rng, updateDisjointNeighbors(w, s1.parent, nbrs, 0))

getDisjointNeighbor(w, parent, nbrs, rng) ==
    IF Len(nbrs) = 0
    THEN [parent |-> parent, neighbors |-> nbrs, rng |-> rng,
          pick |-> NoIndex, done |-> TRUE, err |-> FALSE]
    ELSE afterFirstSample(w, nbrs, sampleNeighbor(w, parent, nbrs, rng))

\* clearWall that forgets the flag of the second cell.
clearWallOneSide(wl, a, da, b, db) ==
    [wl EXCEPT ![a] = [@ EXCEPT ![da] = FALSE]]

\* Clearing the wall between cell a (direction da) and cell b (direction db).
clearWall(wl, a, da, b, db) ==
    [wl EXCEPT ![a] = [@ EXCEPT ![da] = FALSE],
               ![b] = [@ EXCEPT ![db] = FALSE]]

\* The body of the loop of RegenerateFromSeed after the pick r: the wall
\* between the two cells of the entry tmp is cleared and their sets united.
removeWall(w, g, r, tmp) ==
    [walls |-> IF tmp.neighborDirection = 2
               THEN clearWall(g.walls, tmp.baseIndex, 2, tmp.baseIndex + 1, 0)
               ELSE clearWall(g.walls, tmp.baseIndex, 3, tmp.baseIndex + w, 1),
     dj |-> union([parent |-> r.parent, rank |-> g.dj.rank], tmp.baseIndex,
                  IF tmp.neighborDirection = 2 THEN tmp.baseIndex + 1
                  ELSE tmp.baseIndex + w),
     neighbors |-> r.neighbors,
     rng |-> r.rng,
     err |-> "none",
     removals |-> g.removals + 1,
     seeded |-> TRUE]

\* What getDisjointNeighbor left behind when the loop ends with outcome e.
loopEnds(g, r, e) ==
    [walls |-> g.walls, dj |-> [parent |-> r.parent, rank |-> g.dj.rank],
     neighbors |-> r.neighbors, rng |-> r.rng, err |-> e,
     removals |-> g.removals, seeded |-> TRUE]

\* The loop of RegenerateFromSeed.  g holds walls, dj, neighbors, rng, err
\* ("none", "error" for a returned error, "panic" for the dereference of a
\* nil pick) and removals, the number of iterations that removed a wall;
\* joinPicked is one iteration after getDisjointNeighbor.
RECURSIVE generateLoop(_, _)
\* joinPicked that leaves the loop after the first wall it removed.
joinPickedOnce(w, g, r) ==
    IF r.done THEN loopEnds(g, r, "none")
    ELSE IF r.err THEN loopEnds(g, r, "error")
    ELSE IF r.pick = NoIndex THEN loopEnds(g, r, "panic")
    ELSE removeWall(w, g, r, r.neighbors[r.pick + 1])

\* One iteration of the loop of RegenerateFromSeed after the call r of
\* getDisjointNeighbor, when the loop is followed iteration by iteration.
loopBody(w, g, r) ==
    IF r.done THEN loopEnds(g, r, "none")
    ELSE IF r.err THEN loopEnds(g, r, "error")
    ELSE IF r.pick = NoIndex THEN loopEnds(g, r, "panic")
    ELSE removeWall(w, g, r, r.neighbors[r.pick + 1])

RECURSIVE joinPicked(_, _, _)
joinPicked(w, g, r) ==
    IF r.done THEN loopEnds(g, r, "none")
    ELSE IF r.err THEN loopEnds(g, r, "error")
    ELSE IF r.pick = NoIndex THEN loopEnds(g, r, "panic")
    ELSE generateLoop(w, removeWall(w, g, r, r.neighbors[r.pick + 1]))

generateLoop(w, g) ==
    IF Len(g.neighbors) = 0 THEN g
    ELSE joinPicked(w, g, getDisjointNeighbor(w, g.dj.parent, g.neighbors,
                                              g.rng))

\* RegenerateFromSeed up to the end of its loop; seeded tells whether
\* m.randomSeed was assigned (not when initDisjointNeighbors panicked).
generate(w, h, st, oldWalls, oldNeighbors, seed) ==
    IF initPanics(w, h, Cardinality(DOMAIN oldWalls))
    THEN [walls |-> initGridMazeCell(oldWalls),
          dj |-> newDisjointSet(Cardinality(DOMAIN oldWalls)),
          neighbors |-> oldNeighbors,
          rng |-> rngSource(seed),
          err |-> "panic",
          removals |-> 0,
          seeded |-> FALSE]
    ELSE generateLoop(w, [walls |-> initGridMazeCell(oldWalls),
                          dj |-> newDisjointSet(Cardinality(DOMAIN oldWalls)),
                          neighbors |-> initDisjointNeighbors(w, h, st,
                                                              oldNeighbors),
                          rng |-> rngSource(seed),
                          err |-> "none",
                          removals |-> 0,
                          seeded |-> TRUE])

\* chooseEndpoints that resets the start and end cells on every call.
chooseEndpointsAlways(startIdx, endIdx, n) == <<0, n - 1>>

\* The end of RegenerateFromSeed: start and end default to the first and
\* last of the n cells if the start cell has not been set.
chooseEndpoints(startIdx, endIdx, n) ==
    IF startIdx = NoIndex THEN <<0, n - 1>> ELSE <<startIdx, endIdx>>

\* ---------------------------------------------------------------- eroder
\* countWall without the continue statements: the last wall seen wins.
countWallNoContinue(s, present, dir) ==
    IF ~present THEN s
    ELSE [count |-> s.count + 1, firstWall |-> dir, skip |-> FALSE]

\* One of the "if wall present" blocks of ErodeWalls: s.skip stands for the
\* continue statement.
countWall(s, present, dir) ==
    IF s.skip \/ ~present THEN s
    ELSE IF s.count + 1 # 1
         THEN [s EXCEPT !.count = s.count + 1, !.skip = TRUE]
         ELSE [count |-> s.count + 1, firstWall |-> dir, skip |-> FALSE]

\* The body of the inner loop of ErodeWalls for the corner at the bottom
\* right of cellIndex: reads origCells, writes m.cells.
erodeCorner(w, origCells, wl, cellIndex) ==
    LET mainCell == origCells[cellIndex]
        lowerCell == origCells[cellIndex + w + 1]
        s0 == [count |-> 0, firstWall |-> 0, skip |-> FALSE]
        s1 == IF mainCell[2]
              THEN [count |-> 1, firstWall |-> 2, skip |-> FALSE] ELSE s0
        s2 == countWall(s1, mainCell[3], 3)
        s3 == countWall(s2, lowerCell[0], 0)
        s4 == countWall(s3, lowerCell[1], 1)
    IN IF s4.skip \/ s4.count = 0 THEN wl
       ELSE IF s4.firstWall = 0
            THEN clearWall(wl, cellIndex + w + 1, 0, cellIndex + w, 2)
       ELSE IF s4.firstWall = 1
            THEN clearWall(wl, cellIndex + w + 1, 1, cellIndex + 1, 3)
       ELSE IF s4.firstWall = 2
            THEN clearWall(wl, cellIndex, 2, cellIndex + 1, 0)
       ELSE clearWall(wl, cellIndex, 3, cellIndex + w, 1)

\* The loops of ErodeWalls reading m.cells instead of the copy origCells.
RECURSIVE erodeFromInPlace(_, _, _, _, _, _)
erodeFromInPlace(w, h, origCells, wl, row, col) ==
    IF row >= h - 1 THEN wl
    ELSE IF col >= w - 1 THEN erodeFromInPlace(w, h, origCells, wl, row + 1, 0)
    ELSE erodeFromInPlace(w, h, origCells,
                          erodeCorner(w, wl, wl, (row * w) + col), row, col + 1)

\* The two nested loops of ErodeWalls, from (row, col) on.
RECURSIVE erodeFrom(_, _, _, _, _, _)
erodeFrom(w, h, origCells, wl, row, col) ==
    IF row >= h - 1 THEN wl
    ELSE IF col >= w - 1 THEN erodeFrom(w, h, origCells, wl, row + 1, 0)
    ELSE erodeFrom(w, h, origCells,
                   erodeCorner(w, origCells, wl, (row * w) + col), row, col + 1)

\* ErodeWalls running its two loops twice, the second time on the result of
\* the first.
erodeWallsTwice(w, h, wl) ==
    erodeFrom(w, h, erodeFrom(w, h, wl, wl, 0, 0),
              erodeFrom(w, h, wl, wl, 0, 0), 0, 0)

\* ErodeWalls: the new wall array.
erodeWalls(w, h, wl) == erodeFrom(w, h, wl, wl, 0, 0)

\* ---------------------------------------------------------------- solver
\* setDirRanking: dirRanking[0..3] as the tuple <<best, ..., worst>>.
\* setDirRanking that always ranks the horizontal moves best and worst.
setDirRankingColumnFirst(currentCol, currentRow, targetCol, targetRow) ==
    <<IF (targetCol - currentCol) > 0 THEN 2 ELSE 0,
      IF (targetRow - currentRow) > 0 THEN 3 ELSE 1,
      IF (targetRow - currentRow) > 0 THEN 1 ELSE 3,
      IF (targetCol - currentCol) > 0 THEN 0 ELSE 2>>

setDirRanking(currentCol, currentRow, targetCol, targetRow) ==
    LET colDiff == targetCol - currentCol
        absColDiff == IF colDiff < 0 THEN 0 - colDiff ELSE colDiff
        rowDiff == targetRow - currentRow
        absRowDiff == IF rowDiff < 0 THEN 0 - rowDiff ELSE rowDiff
    IN IF absRowDiff > absColDiff
       THEN <<IF rowDiff > 0 THEN 3 ELSE 1,
              IF colDiff > 0 THEN 2 ELSE 0,
              IF colDiff > 0 THEN 0 ELSE 2,
              IF rowDiff > 0 THEN 1 ELSE 3>>
       ELSE <<IF colDiff > 0 THEN 2 ELSE 0,
              IF rowDiff > 0 THEN 3 ELSE 1,
              IF rowDiff > 0 THEN 1 ELSE 3,
              IF colDiff > 0 THEN 0 ELSE 2>>

\* isReachableAndUnvisited without the test of the wall flag.
isReachableThroughWalls(w, h, wl, currentIndex, currentCol, currentRow, moveDir, vis) ==
    IF moveDir = 0 /\ currentCol = 0 THEN NoIndex
    ELSE IF moveDir = 1 /\ currentRow = 0 THEN NoIndex
    ELSE IF moveDir = 2 /\ currentCol = (w - 1) THEN NoIndex
    ELSE IF moveDir = 3 /\ currentRow = (h - 1) THEN NoIndex
    ELSE LET dstIndex == CASE moveDir = 0 -> currentIndex - 1
                           [] moveDir = 1 -> currentIndex - w
                           [] moveDir = 2 -> currentIndex + 1
                           [] moveDir = 3 -> currentIndex + w
         IN IF vis[dstIndex] THEN NoIndex ELSE dstIndex

\* isReachableAndUnvisited: the destination index, NoIndex for (false, -1).
isReachableAndUnvisited(w, h, wl, currentIndex, currentCol, currentRow, moveDir, vis) ==
    IF wl[currentIndex][moveDir] THEN NoIndex
    ELSE IF moveDir = 0 /\ currentCol = 0 THEN NoIndex
    ELSE IF moveDir = 1 /\ currentRow = 0 THEN NoIndex
    ELSE IF moveDir = 2 /\ currentCol = (w - 1) THEN NoIndex
    ELSE IF moveDir = 3 /\ currentRow = (h - 1) THEN NoIndex
    ELSE LET dstIndex == CASE moveDir = 0 -> currentIndex - 1
                           [] moveDir = 1 -> currentIndex - w
                           [] moveDir = 2 -> currentIndex + 1
                           [] moveDir = 3 -> currentIndex + w
         IN IF vis[dstIndex] THEN NoIndex ELSE dstIndex

\* clearSolution that resets every cell.
clearSolutionAll(st) == [i \in DOMAIN st |-> 0]

\* clearSolution: the new cell states.
clearSolution(st) == [i \in DOMAIN st |-> IF st[i] = 1 THEN 0 ELSE st[i]]

\* tryDirection that pushes a cell without marking it visited.
tryDirectionPushUnmarked(s, v, dstIndex) ==
    IF dstIndex = NoIndex THEN s
    ELSE IF s.moveDst = NoIndex
    THEN [s EXCEPT !.moveDst = dstIndex, !.moveDir = v]
    ELSE [s EXCEPT !.parentIndices = [@ EXCEPT ![dstIndex] = s.currentIndex],
                   !.dfsStack = Append(@, dstIndex)]

\* One iteration of the "for _, v := range dirRanking" loop for direction
\* v, given the result dstIndex of isReachableAndUnvisited.  s holds
\* visited, parentIndices, dfsStack, currentIndex/Col/Row, moveDir, moveDst,
\* and two counters: marked counts the assignments "visited[...] = true" of
\* the loops, expanded the cells that became the current cell.
tryDirection(s, v, dstIndex) ==
    IF dstIndex = NoIndex THEN s
    ELSE IF s.moveDst = NoIndex
    THEN [s EXCEPT !.moveDst = dstIndex, !.moveDir = v]
    ELSE [s EXCEPT !.visited = [@ EXCEPT ![dstIndex] = TRUE],
                   !.parentIndices = [@ EXCEPT ![dstIndex] = s.currentIndex],
                   !.dfsStack = Append(@, dstIndex),
                   !.marked = @ + 1]

\* The "for _, v := range dirRanking" loop from rank k (1-based) on.
RECURSIVE rankLoop(_, _, _, _, _, _)
rankLoop(w, h, wl, dirRanking, s, k) ==
    IF k > 4 THEN s
    ELSE rankLoop(w, h, wl, dirRanking,
                  tryDirection(s, dirRanking[k],
                      isReachableAndUnvisited(w, h, wl, s.currentIndex,
                          s.currentCol, s.currentRow, dirRanking[k],
                          s.visited)),
                  k + 1)

\* "Move to the destination index".
moveTo(r) ==
    [r EXCEPT !.visited = [@ EXCEPT ![r.moveDst] = TRUE],
              !.parentIndices = [@ EXCEPT ![r.moveDst] = r.currentIndex],
              !.marked = @ + 1,
              !.expanded = @ + 1,
              !.currentIndex = r.moveDst,
              !.currentCol = CASE r.moveDir = 0 -> r.currentCol - 1
                               [] r.moveDir = 2 -> r.currentCol + 1
                               [] OTHER -> r.currentCol,
              !.currentRow = CASE r.moveDir = 1 -> r.currentRow - 1
                               [] r.moveDir = 3 -> r.currentRow + 1
                               [] OTHER -> r.currentRow]

\* The inner "follow the path as long as possible" loop; reached is TRUE
\* when it leaves by "break DFSLoop".  afterRanking continues an iteration
\* after the ranking loop (r), afterMove after the move (t).
RECURSIVE followPath(_, _, _, _, _, _)
RECURSIVE afterMove(_, _, _, _, _, _)
afterMove(w, h, wl, endCol, endRow, t) ==
    IF (t.currentRow = endRow) /\ (t.currentCol = endCol)
    THEN [t EXCEPT !.reached = TRUE]
    ELSE followPath(w, h, wl, endCol, endRow, t)

RECURSIVE afterRanking(_, _, _, _, _, _)
afterRanking(w, h, wl, endCol, endRow, r) ==
    IF r.moveDst < 0 THEN [r EXCEPT !.reached = FALSE]
    ELSE afterMove(w, h, wl, endCol, endRow, moveTo(r))

followPath(w, h, wl, endCol, endRow, s) ==
    afterRanking(w, h, wl, endCol, endRow,
        rankLoop(w, h, wl,
                 setDirRanking(s.currentCol, s.currentRow, endCol, endRow),
                 [s EXCEPT !.moveDir = NoIndex, !.moveDst = NoIndex], 1))

\* "Select the next path starting-point from the top of the stack".
popStack(w, s) ==
    [s EXCEPT !.dfsStack = SubSeq(@, 1, Len(s.dfsStack) - 1),
              !.expanded = @ + 1,
              !.currentIndex = s.dfsStack[Len(s.dfsStack)],
              !.currentCol = s.dfsStack[Len(s.dfsStack)] % w,
              !.currentRow = s.dfsStack[Len(s.dfsStack)] \div w]

\* DFSLoop: err is TRUE when the stack became empty.  afterPop continues an
\* iteration after the pop (p), afterFollow after the inner loop (f).
RECURSIVE dfsLoop(_, _, _, _, _, _)
RECURSIVE afterFollow(_, _, _, _, _, _)
afterFollow(w, h, wl, endCol, endRow, f) ==
    IF f.reached THEN [f EXCEPT !.err = FALSE]
    ELSE dfsLoop(w, h, wl, endCol, endRow, f)

\* afterPop without the check that the popped cell is the end cell.
RECURSIVE afterPopNoEndCheck(_, _, _, _, _, _)
afterPopNoEndCheck(w, h, wl, endCol, endRow, p) ==
    afterFollow(w, h, wl, endCol, endRow,
                followPath(w, h, wl, endCol, endRow, p))

RECURSIVE afterPop(_, _, _, _, _, _)
afterPop(w, h, wl, endCol, endRow, p) ==
    IF (p.currentRow = endRow) /\ (p.currentCol = endCol)
    THEN [p EXCEPT !.err = FALSE]
    ELSE afterFollow(w, h, wl, endCol, endRow,
                     followPath(w, h, wl, endCol, endRow, p))

dfsLoop(w, h, wl, endCol, endRow, s) ==
    IF Len(s.dfsStack) = 0 THEN [s EXCEPT !.err = TRUE]
    ELSE afterPop(w, h, wl, endCol, endRow, popStack(w, s))

\* The final loop of ShowSolution: marks the chain of parents from index.
\* highlightPath that writes the excluded state along the chain.
RECURSIVE highlightPathAsExcluded(_, _, _)
highlightPathAsExcluded(st, parentIndices, index) ==
    IF index < 0 THEN st
    ELSE highlightPathAsExcluded([st EXCEPT ![index] = 2], parentIndices,
                                 parentIndices[index])

RECURSIVE highlightPath(_, _, _)
highlightPath(st, parentIndices, index) ==
    IF index < 0 THEN st
    ELSE highlightPath([st EXCEPT ![index] = 1], parentIndices,
                       parentIndices[index])

\* solutionResult that highlights the chain from the end cell also when the
\* stack became empty.
solutionResultIgnoresErr(st, endIdx, r) ==
    [err |-> r.err,
     state |-> highlightPath(st, r.parentIndices, endIdx),
     parentIndices |-> r.parentIndices,
     visited |-> r.visited,
     marked |-> r.marked,
     expanded |-> r.expanded]

\* solutionResult that marks every visited cell instead of the parent chain.
solutionResultMarksVisited(st, endIdx, r) ==
    [err |-> r.err,
     state |-> IF r.err THEN st
               ELSE [i \in DOMAIN st |-> IF r.visited[i] THEN 1 ELSE st[i]],
     parentIndices |-> r.parentIndices,
     visited |-> r.visited,
     marked |-> r.marked,
     expanded |-> r.expanded]

\* The end of ShowSolution(true) after DFSLoop (r).
solutionResult(st, endIdx, r) ==
    [err |-> r.err,
     state |-> IF r.err THEN st
               ELSE highlightPath(st, r.parentIndices, endIdx),
     parentIndices |-> r.parentIndices,
     visited |-> r.visited,
     marked |-> r.marked,
     expanded |-> r.expanded]

\* ShowSolution(true): err, the new cell states, the final values of the
\* locals parentIndices and visited, and the two counters.
showSolution(w, h, wl, st, startIdx, endIdx) ==
    solutionResult(st, endIdx,
        dfsLoop(w, h, wl, endIdx % w, endIdx \div w,
                [visited |-> [i \in DOMAIN st |->
                                 (st[i] = 2) \/ (i = startIdx)],
                 parentIndices |-> [i \in DOMAIN st |-> NoIndex],
                 dfsStack |-> <<startIdx>>,
                 currentIndex |-> NoIndex, currentCol |-> 0, currentRow |-> 0,
                 moveDir |-> NoIndex, moveDst |-> NoIndex,
                 reached |-> FALSE, err |-> FALSE,
                 marked |-> 0, expanded |-> 0]))

\* ------------------------------------------------------------ allocation
\* allocateMaze without the check of width and height.
allocateMazeNoSizeCheck(w, h) ==
    IF wrapInt(w * h) <= 0
    THEN [err |-> TRUE]
    ELSE [err |-> FALSE,
          walls |-> [i \in 0..(wrapInt(w * h) - 1) |-> [d \in Dirs |-> FALSE]],
          state |-> [i \in 0..(wrapInt(w * h) - 1) |-> 0],
          djSet |-> [parent |-> [i \in 0..(wrapInt(w * h) - 1) |-> NoIndex],
                     rank |-> [i \in 0..(wrapInt(w * h) - 1) |-> 0]],
          startCellIndex |-> NoIndex,
          endCellIndex |-> NoIndex,
          neighbors |-> <<>>]

\* allocateMaze: err, or the zero-valued cells (no wall set, state normal,
\* nil djSet), startCellIndex = endCellIndex = -1 and nil neighbors.  The
\* cell count is the product of width and height in int arithmetic.
allocateMaze(w, h) ==
    IF (w < 1) \/ (h < 1) \/ (wrapInt(w * h) <= 0)
    THEN [err |-> TRUE]
    ELSE [err |-> FALSE,
          walls |-> [i \in 0..(wrapInt(w * h) - 1) |-> [d \in Dirs |-> FALSE]],
          state |-> [i \in 0..(wrapInt(w * h) - 1) |-> 0],
          djSet |-> [parent |-> [i \in 0..(wrapInt(w * h) - 1) |-> NoIndex],
                     rank |-> [i \in 0..(wrapInt(w * h) - 1) |-> 0]],
          startCellIndex |-> NoIndex,
          endCellIndex |-> NoIndex,
          neighbors |-> <<>>]

\* The cells of a template with a given type, in increasing index order
\* (possibleStartIndices, possibleEndIndices).
\* colorToTemplateCellType: r, g, b are the 16-bit channels c.RGBA() returns;
\* the result is a templateCellType, 0 = valid, 1 = excluded,
\* 2 = startCandidate, 3 = endCandidate.
shiftChannel(c) == c \div 256

classifyChannels(r, g, b) ==
    IF (r = 0) /\ (g = 0) /\ (b = 0) THEN 1
    ELSE IF (r = 0) /\ (g > 200) /\ (b = 0) THEN 2
    ELSE IF (r > 200) /\ (g = 0) /\ (b = 0) THEN 3
    ELSE IF (r = 255) /\ (g = 255) /\ (b = 255) THEN 0
    ELSE 0

colorToTemplateCellType(r, g, b) ==
    classifyChannels(shiftChannel(r), shiftChannel(g), shiftChannel(b))

RECURSIVE indicesOfType(_, _, _, _)
indicesOfType(tpl, n, type, index) ==
    IF index >= n THEN <<>>
    ELSE (IF tpl[index] = type THEN <<index>> ELSE <<>>)
         \o indicesOfType(tpl, n, type, index + 1)

\* templateSetup without the check that the last cell is not excluded.
templateSetupNoEndCheck(tpl, n, seed) ==
    LET st == [i \in 0..(n - 1) |-> IF tpl[i] = 1 THEN 2 ELSE 0]
        possibleStartIndices == indicesOfType(tpl, n, 2, 0)
        possibleEndIndices == indicesOfType(tpl, n, 3, 0)
        rng0 == rngSource(seed)
        r1 == IF Len(possibleStartIndices) # 0
              THEN Intn(rng0, Len(possibleStartIndices))
              ELSE [rng |-> rng0, val |-> 0]
        startErr == (Len(possibleStartIndices) = 0) /\ (st[0] = 2)
        startIdx == IF Len(possibleStartIndices) # 0
                    THEN possibleStartIndices[r1.val + 1] ELSE 0
        r2 == IF Len(possibleEndIndices) # 0
              THEN Intn(r1.rng, Len(possibleEndIndices))
              ELSE [rng |-> r1.rng, val |-> 0]
        endErr == FALSE
        endIdx == IF Len(possibleEndIndices) # 0
                  THEN possibleEndIndices[r2.val + 1] ELSE n - 1
    IN [err |-> startErr \/ endErr, state |-> st,
        startCellIndex |-> startIdx, endCellIndex |-> endIdx]

\* NewGridMazeFromTemplate after allocateMaze and before RegenerateFromSeed:
\* the cell states and the choice of the start and end cells.
templateSetup(tpl, n, seed) ==
    LET st == [i \in 0..(n - 1) |-> IF tpl[i] = 1 THEN 2 ELSE 0]
        possibleStartIndices == indicesOfType(tpl, n, 2, 0)
        possibleEndIndices == indicesOfType(tpl, n, 3, 0)
        rng0 == rngSource(seed)
        r1 == IF Len(possibleStartIndices) # 0
              THEN Intn(rng0, Len(possibleStartIndices))
              ELSE [rng |-> rng0, val |-> 0]
        startErr == (Len(possibleStartIndices) = 0) /\ (st[0] = 2)
        startIdx == IF Len(possibleStartIndices) # 0
                    THEN possibleStartIndices[r1.val + 1] ELSE 0
        r2 == IF Len(possibleEndIndices) # 0
              THEN Intn(r1.rng, Len(possibleEndIndices))
              ELSE [rng |-> r1.rng, val |-> 0]
        endErr == (Len(possibleEndIndices) = 0) /\ (st[n - 1] = 2)
        endIdx == IF Len(possibleEndIndices) # 0
                  THEN possibleEndIndices[r2.val + 1] ELSE n - 1
    IN [err |-> startErr \/ endErr, state |-> st,
        startCellIndex |-> startIdx, endCellIndex |-> endIdx]

\* ------------------------------------------------------------------ state
VARIABLES
    pc,              \* "start", "allocated", "ready", "failed", "panicked"
    ctor,            \* the constructor the caller uses
    width, height,   \* the requested size (the bounds of the template)
    template,        \* the template cell type of every pixel
    seedArg,         \* the seed argument of the constructor
    walls,           \* m.cells[i].walls
    state,           \* m.cells[i].state
    djSet,           \* the nodes m.cells[i].djSet: parent and rank
    neighbors,       \* m.neighbors
    startCellIndex, endCellIndex, randomSeed,
    lastOp,          \* the operation that produced this state
    lastErr,         \* "none", "error" or "panic": how that operation ended
    parentIndices,   \* local of the last ShowSolution(true) call, kept
    visited,         \* while the walls are unchanged (<<>> otherwise)
    firstWalls,      \* history: the walls the constructor generated
    loopCount,       \* history: wall removals of the last generation, marked
                     \* and expanded cells of the last ShowSolution(true)
    rngState,        \* the local rng of a RegenerateFromSeed call in progress
    args, result     \* the arguments and the result of a function called
                     \* on its own

vars == <<pc, ctor, width, height, template, seedArg, walls, state, djSet,
          neighbors, startCellIndex, endCellIndex, randomSeed, lastOp,
          lastErr, parentIndices, visited, firstWalls, loopCount, rngState,
          args, result>>

BoundedSubsets(S, k) == {x \in SUBSET S : Cardinality(x) <= k}

\* The templates of n pixels with at most MaxExcluded excluded pixels and
\* at most MaxCandidates start or end candidate pixels.
Templates(n) ==
    LET C == 0..(n - 1)
    IN {[i \in C |-> IF i \in x[1] THEN 1 ELSE IF i \in x[2] THEN 2
                     ELSE IF i \in x[3] THEN 3 ELSE 0] :
           x \in {y \in BoundedSubsets(C, MaxExcluded)
                          \X BoundedSubsets(C, MaxCandidates)
                          \X BoundedSubsets(C, MaxCandidates) :
                    /\ y[1] \cap y[2] = {}
                    /\ y[1] \cap y[3] = {}
                    /\ y[2] \cap y[3] = {}
                    /\ Cardinality(y[2]) + Cardinality(y[3]) <= MaxCandidates}}

Init ==
    /\ pc = "start"
    /\ ctor \in {"WithSeed", "FromTemplate"}
    /\ width \in 1..MaxWidth
    /\ height \in 1..MaxHeight
    /\ width * height <= MaxCells
    /\ template \in IF ctor = "FromTemplate" THEN Templates(width * height)
                    ELSE {[i \in 0..((width * height) - 1) |-> 0]}
    /\ seedArg = 0
    /\ walls = <<>>
    /\ state = <<>>
    /\ djSet = <<>>
    /\ neighbors = <<>>
    /\ startCellIndex = NoIndex
    /\ endCellIndex = NoIndex
    /\ randomSeed = 0
    /\ lastOp = "none"
    /\ lastErr = "none"
    /\ parentIndices = <<>>
    /\ visited = <<>>
    /\ firstWalls = <<>>
    /\ loopCount = [removals |-> 0, marked |-> 0, expanded |-> 0]
    /\ rngState = 0
    /\ args = <<>>
    /\ result = <<>>

\* ---------------------------------------------------------------- actions
\* NewGridMazeWithSeed up to its call of RegenerateFromSeed.
NewGridMazeWithSeed(seed) ==
    /\ pc = "start"
    /\ ctor = "WithSeed"
    /\ \E a \in {allocateMaze(width, height)} :
          IF a.err
          THEN /\ pc' = "failed"
               /\ lastErr' = "error"
               /\ UNCHANGED <<walls, state, djSet, neighbors, startCellIndex,
                              endCellIndex>>
          ELSE /\ pc' = "allocated"
               /\ lastErr' = "none"
               /\ walls' = a.walls
               /\ state' = a.state
               /\ djSet' = a.djSet
               /\ neighbors' = a.neighbors
               /\ startCellIndex' = a.startCellIndex
               /\ endCellIndex' = a.endCellIndex
    /\ seedArg' = seed
    /\ lastOp' = "allocate"
    /\ UNCHANGED <<ctor, width, height, template, randomSeed, parentIndices,
                   visited, firstWalls, loopCount, rngState, args, result>>

\* NewGridMazeFromTemplate up to its call of RegenerateFromSeed.
NewGridMazeFromTemplate(seed) ==
    /\ pc = "start"
    /\ ctor = "FromTemplate"
    /\ \E a \in {allocateMaze(width, height)},
          t \in {IF allocateMaze(width, height).err THEN [err |-> TRUE]
                 ELSE templateSetup(template, width * height, seed)} :
          IF a.err \/ t.err
          THEN /\ pc' = "failed"
               /\ lastErr' = "error"
               /\ UNCHANGED <<walls, state, djSet, neighbors, startCellIndex,
                              endCellIndex>>
          ELSE /\ pc' = "allocated"
               /\ lastErr' = "none"
               /\ walls' = a.walls
               /\ state' = t.state
               /\ djSet' = a.djSet
               /\ neighbors' = a.neighbors
               /\ startCellIndex' = t.startCellIndex
               /\ endCellIndex' = t.endCellIndex
    /\ seedArg' = seed
    /\ lastOp' = "allocate"
    /\ UNCHANGED <<ctor, width, height, template, randomSeed, parentIndices,
                   visited, firstWalls, loopCount, rngState, args, result>>

\* The body of RegenerateFromSeed on the current grid.
regenerate(seed) ==
    \E g \in {generate(width, height, state, walls, neighbors, seed)} :
       /\ walls' = g.walls
       /\ djSet' = g.dj
       /\ neighbors' = g.neighbors
       /\ randomSeed' = IF g.seeded THEN seed ELSE randomSeed
       /\ lastErr' = g.err
       /\ IF g.err = "none"
          THEN \E e \in {chooseEndpoints(startCellIndex, endCellIndex,
                                        Cardinality(DOMAIN walls))} :
                  /\ startCellIndex' = e[1]
                  /\ endCellIndex' = e[2]
          ELSE UNCHANGED <<startCellIndex, endCellIndex>>
       /\ lastOp' = "RegenerateFromSeed"
       /\ parentIndices' = <<>>
       /\ visited' = <<>>
       /\ loopCount' = [removals |-> g.removals, marked |-> 0, expanded |-> 0]
       /\ UNCHANGED <<ctor, width, height, template, seedArg, state, rngState,
                      args, result>>

\* The call of RegenerateFromSeed that ends both constructors.
ConstructorGenerate ==
    /\ pc = "allocated"
    /\ regenerate(seedArg)
    /\ pc' = CASE lastErr' = "none" -> "ready"
                [] lastErr' = "error" -> "failed"
                [] OTHER -> "panicked"
    /\ firstWalls' = walls'

\* RegenerateFromSeed called on a constructed maze.
RegenerateFromSeed(seed) ==
    /\ pc = "ready"
    /\ regenerate(seed)
    /\ pc' = IF lastErr' = "panic" THEN "panicked" ELSE "ready"
    /\ UNCHANGED firstWalls

ErodeWalls ==
    /\ pc = "ready"
    /\ walls' = erodeWalls(width, height, walls)
    /\ lastOp' = "ErodeWalls"
    /\ lastErr' = "none"
    /\ parentIndices' = <<>>
    /\ visited' = <<>>
    /\ loopCount' = [loopCount EXCEPT !.marked = 0, !.expanded = 0]
    /\ UNCHANGED <<pc, ctor, width, height, template, seedArg, state, djSet,
                   neighbors, startCellIndex, endCellIndex, randomSeed,
                   firstWalls, rngState, args, result>>

ShowSolution(show) ==
    /\ pc = "ready"
    /\ IF ~show
       THEN /\ state' = clearSolution(state)
            /\ lastOp' = "ShowSolution(false)"
            /\ lastErr' = "none"
            /\ UNCHANGED <<parentIndices, visited, loopCount>>
       ELSE \E r \in {showSolution(width, height, walls, state,
                                   startCellIndex, endCellIndex)} :
               /\ state' = r.state
               /\ lastOp' = "ShowSolution(true)"
               /\ lastErr' = IF r.err THEN "error" ELSE "none"
               /\ parentIndices' = r.parentIndices
               /\ visited' = r.visited
               /\ loopCount' = [loopCount EXCEPT !.marked = r.marked,
                                                 !.expanded = r.expanded]
    /\ UNCHANGED <<pc, ctor, width, height, template, seedArg, walls, djSet,
                   neighbors, startCellIndex, endCellIndex, randomSeed,
                   firstWalls, rngState, args, result>>

Next ==
    \/ \E seed \in Seeds : NewGridMazeWithSeed(seed)
    \/ \E seed \in Seeds : NewGridMazeFromTemplate(seed)
    \/ ConstructorGenerate
    \/ \E seed \in Seeds : RegenerateFromSeed(seed)
    \/ ErodeWalls
    \/ \E show \in BOOLEAN : ShowSolution(show)

Spec == Init /\ [][Next]_vars

\* The templates of n pixels with at most MaxExcluded excluded pixels and
\* at most MaxChoices start and MaxChoices end candidate pixels.
ChoiceTemplates(n) ==
    LET C == 0..(n - 1)
    IN {[i \in C |-> IF i \in x[1] THEN 1 ELSE IF i \in x[2] THEN 2
                     ELSE IF i \in x[3] THEN 3 ELSE 0] :
           x \in {y \in BoundedSubsets(C, MaxExcluded)
                          \X BoundedSubsets(C, MaxChoices)
                          \X BoundedSubsets(C, MaxChoices) :
                    /\ y[1] \cap y[2] = {}
                    /\ y[1] \cap y[3] = {}
                    /\ y[2] \cap y[3] = {}}}

\* The calls of the constructors: NewGridMazeWithSeed with every width and
\* height from -1 to the largest int, NewGridMazeFromTemplate with every
\* template of at most MaxTemplateCells pixels.
ConstructInit ==
    /\ pc = "start"
    /\ ctor \in {"WithSeed", "FromTemplate"}
    /\ width \in IF ctor = "WithSeed" THEN NoIndex..MaxInt
                  ELSE 0..MaxTemplateCells
    /\ height \in IF ctor = "WithSeed" THEN NoIndex..MaxInt
                   ELSE 0..MaxTemplateCells
    /\ (ctor = "FromTemplate") => (width * height <= MaxTemplateCells)
    /\ template \in IF ctor = "FromTemplate"
                    THEN ChoiceTemplates(width * height)
                    ELSE {<<>>}
    /\ seedArg = 0
    /\ walls = <<>>
    /\ state = <<>>
    /\ djSet = <<>>
    /\ neighbors = <<>>
    /\ startCellIndex = NoIndex
    /\ endCellIndex = NoIndex
    /\ randomSeed = 0
    /\ lastOp = "none"
    /\ lastErr = "none"
    /\ parentIndices = <<>>
    /\ visited = <<>>
    /\ firstWalls = <<>>
    /\ loopCount = [removals |-> 0, marked |-> 0, expanded |-> 0]
    /\ rngState = 0
    /\ args = <<>>
    /\ result = <<>>

ConstructNext ==
    \/ \E seed \in Seeds : NewGridMazeWithSeed(seed)
    \/ \E seed \in Seeds : NewGridMazeFromTemplate(seed)
    \/ ConstructorGenerate

ConstructSpec == ConstructInit /\ [][ConstructNext]_vars

\* ------------------------------------- generation, iteration by iteration
\* RegenerateFromSeed followed through its loop: pc is "generating" between
\* the call of initDisjointNeighbors and the end of the loop, and result
\* holds what the last call of getDisjointNeighbor returned (retried: its
\* first sample was a pair of the same set; nilNeighbor: a nil entry).
nilNeighbor == [baseIndex |-> NoIndex, neighborDirection |-> NoIndex]

BeginRegenerate(seed) ==
    /\ pc \in {"allocated", "ready"}
    /\ (pc = "allocated") => (seed = seedArg)
    /\ walls' = initGridMazeCell(walls)
    /\ djSet' = newDisjointSet(Cardinality(DOMAIN walls))
    /\ IF initPanics(width, height, Cardinality(DOMAIN walls))
       THEN /\ pc' = "panicked"
            /\ lastErr' = "panic"
            /\ UNCHANGED <<neighbors, randomSeed, rngState>>
       ELSE /\ pc' = "generating"
            /\ lastErr' = "none"
            /\ neighbors' = initDisjointNeighbors(width, height, state,
                                                  neighbors)
            /\ randomSeed' = seed
            /\ rngState' = rngSource(seed)
    /\ lastOp' = "initDisjointNeighbors"
    /\ parentIndices' = <<>>
    /\ visited' = <<>>
    /\ loopCount' = [removals |-> 0, marked |-> 0, expanded |-> 0]
    /\ result' = <<>>
    /\ UNCHANGED <<ctor, width, height, template, seedArg, state,
                   startCellIndex, endCellIndex, firstWalls, args>>

LoopIteration ==
    /\ pc = "generating"
    /\ Len(neighbors) # 0
    /\ \E r \in {getDisjointNeighbor(width, djSet.parent, neighbors,
                                      rngState)} :
          /\ result' = [done |-> r.done, err |-> r.err,
                        pick |-> IF r.pick = NoIndex THEN nilNeighbor
                                 ELSE r.neighbors[r.pick + 1],
                        retried |-> sampleNeighbor(width, djSet.parent,
                                                   neighbors,
                                                   rngState).pick = NoIndex]
          /\ \E g \in {loopBody(width,
                                 [walls |-> walls, dj |-> djSet,
                                  neighbors |-> neighbors, rng |-> rngState,
                                  err |-> "none",
                                  removals |-> loopCount.removals,
                                  seeded |-> TRUE], r)} :
                /\ walls' = g.walls
                /\ djSet' = g.dj
                /\ neighbors' = g.neighbors
                /\ rngState' = g.rng
                /\ lastErr' = g.err
                /\ loopCount' = [loopCount EXCEPT !.removals = g.removals]
                /\ pc' = CASE g.err = "none" -> "generating"
                            [] g.err = "error" -> "failed"
                            [] OTHER -> "panicked"
    /\ lastOp' = "getDisjointNeighbor"
    /\ UNCHANGED <<ctor, width, height, template, seedArg, state,
                   startCellIndex, endCellIndex, randomSeed, parentIndices,
                   visited, firstWalls, args>>

EndRegenerate ==
    /\ pc = "generating"
    /\ Len(neighbors) = 0
    /\ \E e \in {chooseEndpoints(startCellIndex, endCellIndex,
                                  Cardinality(DOMAIN walls))} :
          /\ startCellIndex' = e[1]
          /\ endCellIndex' = e[2]
    /\ pc' = "ready"
    /\ lastOp' = "RegenerateFromSeed"
    /\ lastErr' = "none"
    /\ UNCHANGED <<ctor, width, height, template, seedArg, walls, state, djSet,
                   neighbors, randomSeed, parentIndices, visited, firstWalls,
                   loopCount, rngState, args, result>>

LoopNext ==
    \/ \E seed \in Seeds : NewGridMazeWithSeed(seed)
    \/ \E seed \in Seeds : NewGridMazeFromTemplate(seed)
    \/ \E seed \in Seeds : BeginRegenerate(seed)
    \/ LoopIteration
    \/ EndRegenerate

LoopSpec == Init /\ [][LoopNext]_vars

\* ------------------------------------------- the disjoint set on its own
\* MaxNodes nodes made by newDisjointSet, then any sequence of union and
\* findSet calls.  args holds the last call with the nodes as they were
\* when it was made (dj), result what findSet returned.
Nodes == 0..(MaxNodes - 1)

DisjointInit ==
    /\ pc = "sets"
    /\ djSet = newDisjointSet(MaxNodes)
    /\ args = <<>>
    /\ result = <<>>
    /\ ctor = "none"
    /\ width = 0
    /\ height = 0
    /\ template = <<>>
    /\ seedArg = 0
    /\ walls = <<>>
    /\ state = <<>>
    /\ neighbors = <<>>
    /\ startCellIndex = NoIndex
    /\ endCellIndex = NoIndex
    /\ randomSeed = 0
    /\ lastOp = "none"
    /\ lastErr = "none"
    /\ parentIndices = <<>>
    /\ visited = <<>>
    /\ firstWalls = <<>>
    /\ loopCount = [removals |-> 0, marked |-> 0, expanded |-> 0]
    /\ rngState = 0

setVars == <<pc, ctor, width, height, template, seedArg, walls, state,
             neighbors, startCellIndex, endCellIndex, randomSeed, lastOp,
             lastErr, parentIndices, visited, firstWalls, loopCount,
             rngState>>

Union(s, other) ==
    /\ pc = "sets"
    /\ \A i \in Nodes : djSet.rank[i] < MaxRank
    /\ djSet' = union(djSet, s, other)
    /\ args' = [fn |-> "union", in |-> <<s, other>>, dj |-> djSet]
    /\ result' = <<>>
    /\ UNCHANGED setVars

FindSet(s) ==
    /\ pc = "sets"
    /\ djSet' = [parent |-> findSet(djSet.parent, s).parent,
                 rank |-> djSet.rank]
    /\ args' = [fn |-> "findSet", in |-> <<s>>, dj |-> djSet]
    /\ result' = findSet(djSet.parent, s).root
    /\ UNCHANGED setVars

DisjointNext ==
    \/ \E s, other \in Nodes : Union(s, other)
    \/ \E s \in Nodes : FindSet(s)

DisjointSpec == DisjointInit /\ [][DisjointNext]_vars

\* --------------------------------------------- functions called on their own
\* The helper functions of the library are also run on their own, each on
\* one argument tuple: args holds the call, result what it returned.
gridVars == <<ctor, width, height, template, seedArg, walls, state, djSet,
              neighbors, startCellIndex, endCellIndex, randomSeed, lastOp,
              lastErr, parentIndices, visited, firstWalls, loopCount,
              rngState>>

ChannelValues == {(i * 65535) \div MaxChannelStep : i \in 0..MaxChannelStep}

Coordinates == 0..(MaxWidth - 1)

Calls ==
    [fn : {"colorToTemplateCellType"},
     in : ChannelValues \X ChannelValues \X ChannelValues]
    \cup [fn : {"setDirRanking"},
          in : Coordinates \X Coordinates \X Coordinates \X Coordinates]

FunctionInit ==
    /\ pc = "call"
    /\ args \in Calls
    /\ result = <<>>
    /\ ctor = "none"
    /\ width = 0
    /\ height = 0
    /\ template = <<>>
    /\ seedArg = 0
    /\ walls = <<>>
    /\ state = <<>>
    /\ djSet = <<>>
    /\ neighbors = <<>>
    /\ startCellIndex = NoIndex
    /\ endCellIndex = NoIndex
    /\ randomSeed = 0
    /\ lastOp = "none"
    /\ lastErr = "none"
    /\ parentIndices = <<>>
    /\ visited = <<>>
    /\ firstWalls = <<>>
    /\ loopCount = [removals |-> 0, marked |-> 0, expanded |-> 0]
    /\ rngState = 0

CallColorToTemplateCellType ==
    /\ pc = "call"
    /\ args.fn = "colorToTemplateCellType"
    /\ result' = colorToTemplateCellType(args.in[1], args.in[2], args.in[3])
    /\ pc' = "returned"
    /\ UNCHANGED <<args, gridVars>>

CallSetDirRanking ==
    /\ pc = "call"
    /\ args.fn = "setDirRanking"
    /\ result' = setDirRanking(args.in[1], args.in[2], args.in[3], args.in[4])
    /\ pc' = "returned"
    /\ UNCHANGED <<args, gridVars>>

FunctionNext ==
    \/ CallColorToTemplateCellType
    \/ CallSetDirRanking

FunctionSpec == FunctionInit /\ [][FunctionNext]_vars

\* ------------------------------------------------------------ properties
Cells == DOMAIN walls

NumCells == width * height

HasRight(i) == (i % width) # (width - 1)

HasDown(i) == (i \div width) # (height - 1)

\* The internal adjacencies <<a, b, d>>: b is the neighbor of a in direction
\* d, to the right (2) or below (3).
Adjacencies ==
    {<<i, i + 1, 2>> : i \in {c \in Cells : HasRight(c)}}
    \cup {<<i, i + width, 3>> : i \in {c \in Cells : HasDown(c)}}

Opposite(d) == (d + 2) % 4

\* The shared wall of an adjacency is cleared (on both sides) in wl.
Cleared(wl, e) == ~wl[e[1]][e[3]] /\ ~wl[e[2]][Opposite(e[3])]

ClearedEdges(wl) == {e \in Adjacencies : Cleared(wl, e)}

\* The cells reachable from the cells of S along the edges of E.
RECURSIVE Closure(_, _)
Closure(S, E) ==
    LET T == S \cup {e[2] : e \in {f \in E : f[1] \in S}}
               \cup {e[1] : e \in {f \in E : f[2] \in S}}
    IN IF T = S THEN S ELSE Closure(T, E)

Excluded == {i \in Cells : state[i] = 2}

\* The cells the template excludes (none without a template).
TemplateExcluded == {i \in Cells : ctor = "FromTemplate" /\ template[i] = 1}

NonExcluded == Cells \ TemplateExcluded

\* The neighbor of cell i in direction d, NoIndex outside the grid.
Neighbor(i, d) ==
    CASE d = 0 -> IF (i % width) = 0 THEN NoIndex ELSE i - 1
      [] d = 1 -> IF (i \div width) = 0 THEN NoIndex ELSE i - width
      [] d = 2 -> IF HasRight(i) THEN i + 1 ELSE NoIndex
      [] d = 3 -> IF HasDown(i) THEN i + width ELSE NoIndex

\* The cells from cell i along the parent indices, at most k of them.
RECURSIVE ParentChain(_, _)
ParentChain(i, k) ==
    IF (i = NoIndex) \/ (k = 0) THEN <<>>
    ELSE <<i>> \o ParentChain(parentIndices[i], k - 1)

\* The chain ShowSolution marks: from the end cell back to the start cell.
MarkedChain == ParentChain(endCellIndex, NumCells + 1)

\* The top-left cells of the 2x2 blocks, one per interior corner.
Corners == {c \in Cells : HasRight(c) /\ HasDown(c)}

\* The four wall segments that meet at the corner of c, each as the flag
\* the claim reads it from and the set of <<cell, direction>> flags that
\* record it.
CornerSegments(c) ==
    {[read |-> <<c, 2>>, flags |-> {<<c, 2>>, <<c + 1, 0>>}],
     [read |-> <<c, 3>>, flags |-> {<<c, 3>>, <<c + width, 1>>}],
     [read |-> <<c + width + 1, 0>>,
      flags |-> {<<c + width + 1, 0>>, <<c + width, 2>>}],
     [read |-> <<c + width + 1, 1>>,
      flags |-> {<<c + width + 1, 1>>, <<c + 1, 3>>}]}

PresentAt(wl, seg) == wl[seg.read[1]][seg.read[2]]

\* seg is the only present segment at the corner of c in wl.
OnlySegment(wl, c, seg) ==
    /\ PresentAt(wl, seg)
    /\ \A other \in CornerSegments(c) \ {seg} : ~PresentAt(wl, other)

\* The flag <<i, d>> records a segment that is alone at some corner.
Dangling(wl, i, d) ==
    \E c \in Corners : \E seg \in CornerSegments(c) :
        (<<i, d>> \in seg.flags) /\ OnlySegment(wl, c, seg)

\* C1: after RegenerateFromSeed on a grid without excluded cells the cleared
\* walls form a spanning tree of the cells: every cell is reachable from
\* cell 0 through cleared walls and exactly width*height - 1 internal walls
\* are cleared (a connected graph with one edge less than vertices has no
\* cycle, so any two cells are joined by exactly one simple path).
C1_SpanningTree ==
    (pc = "ready" /\ lastOp = "RegenerateFromSeed" /\ Excluded = {})
        => /\ lastErr = "none"
           /\ Closure({0}, ClearedEdges(walls)) = Cells
           /\ Cardinality(ClearedEdges(walls)) = NumCells - 1

C1_Witness ==
    /\ pc = "ready" /\ lastOp = "RegenerateFromSeed" /\ Excluded = {}
    /\ width = 3 /\ height = 2
    /\ randomSeed # seedArg
    /\ Cardinality(ClearedEdges(walls)) = 5

\* C2: in every state of a constructed grid the wall flag of a cell toward
\* a neighbor equals the neighbor's flag toward the cell (A.right = B.left,
\* A.bottom = B.top).
C2_WallSymmetry ==
    (pc \in {"allocated", "ready"})
        => \A e \in Adjacencies :
              walls[e[1]][e[3]] = walls[e[2]][Opposite(e[3])]

\* An erosion pass has opened a cycle on a grid without excluded cells.
C2_Witness ==
    /\ pc = "ready" /\ lastOp = "ErodeWalls" /\ Excluded = {}
    /\ Cardinality(ClearedEdges(walls)) > NumCells - 1

\* C3: a regeneration with the seed the constructor used gives the wall
\* layout the constructor's generation gave (firstWalls), whatever was
\* called in between (ErodeWalls, ShowSolution, regenerations with other
\* seeds): the layout depends only on size, exclusion mask and seed.
C3_Determinism ==
    (pc = "ready" /\ lastOp = "RegenerateFromSeed" /\ randomSeed = seedArg)
        => walls = firstWalls

\* A regeneration with the constructor's seed on a grid that still carries
\* the marks of an earlier ShowSolution(true).
C3_Witness ==
    /\ pc = "ready" /\ lastOp = "RegenerateFromSeed" /\ randomSeed = seedArg
    /\ width = 3 /\ height = 3
    /\ Cardinality({i \in Cells : state[i] = 1}) >= 5
    /\ walls = firstWalls

\* C4: after a successful ShowSolution(true) the chain of parent indices
\* from the end cell leads to the start cell in at most width*height steps,
\* repeats no cell, joins only adjacent cells with no wall between them, and
\* all its cells (start and end included) are marked on-solution-path.
C4_SolverPath ==
    (lastOp = "ShowSolution(true)" /\ lastErr = "none")
        => /\ Len(MarkedChain) >= 1
           /\ Len(MarkedChain) - 1 <= NumCells
           /\ MarkedChain[1] = endCellIndex
           /\ MarkedChain[Len(MarkedChain)] = startCellIndex
           /\ \A j, k \in 1..Len(MarkedChain) :
                 (j # k) => (MarkedChain[j] # MarkedChain[k])
           /\ \A j \in 1..(Len(MarkedChain) - 1) :
                 \E d \in Dirs :
                    /\ Neighbor(MarkedChain[j + 1], d) = MarkedChain[j]
                    /\ ~walls[MarkedChain[j + 1]][d]
                    /\ ~walls[MarkedChain[j]][Opposite(d)]
           /\ \A j \in 1..Len(MarkedChain) : state[MarkedChain[j]] = 1

\* A solved grid that erosion has opened (it has a cycle), with a path of
\* at least four steps.
C4_Witness ==
    /\ lastOp = "ShowSolution(true)" /\ lastErr = "none"
    /\ TemplateExcluded = {}
    /\ Cardinality(ClearedEdges(walls)) > NumCells - 1
    /\ Len(MarkedChain) >= 5

\* C5: a ShowSolution(false) step turns every on-solution-path cell into a
\* normal cell and leaves every other cell (normal or excluded) as it is,
\* so no cell is on-solution-path afterwards.
C5_ClearSolution ==
    [][(lastOp' = "ShowSolution(false)")
         => \A i \in Cells :
               /\ state'[i] = (IF state[i] = 1 THEN 0 ELSE state[i])
               /\ state'[i] # 1]_vars

\* ShowSolution(false) right after a successful ShowSolution(true) on a
\* grid with an excluded cell: the cells of the chain are normal again.
C5_Witness ==
    /\ lastOp = "ShowSolution(false)"
    /\ parentIndices # <<>>
    /\ Len(MarkedChain) >= 3
    /\ \A j \in 1..Len(MarkedChain) : state[MarkedChain[j]] = 0
    /\ \E i \in Cells : state[i] = 2

\* The adjacencies between two cells that are not excluded.
OpenAdjacencies ==
    {e \in Adjacencies : e[1] \in NonExcluded /\ e[2] \in NonExcluded}

\* C6: with excluded cells, after RegenerateFromSeed the cleared walls join
\* non-excluded cells only, form no cycle among them (one edge less than
\* cells in every connected region), and connect two non-excluded cells
\* exactly when a chain of adjacent non-excluded cells connects them.
C6_ExclusionForest ==
    (pc = "ready" /\ lastOp = "RegenerateFromSeed")
        => /\ ClearedEdges(walls) \subseteq OpenAdjacencies
           /\ \A a \in NonExcluded :
                 Closure({a}, ClearedEdges(walls)) = Closure({a}, OpenAdjacencies)
           /\ Cardinality(ClearedEdges(walls)) =
                 Cardinality(NonExcluded)
                 - Cardinality({Closure({a}, ClearedEdges(walls)) :
                                   a \in NonExcluded})

\* A generated 3x3 grid with an excluded cell: a spanning tree of the
\* eight other cells.
C6_Witness ==
    /\ pc = "ready" /\ lastOp = "RegenerateFromSeed"
    /\ width = 3 /\ height = 3
    /\ Cardinality(TemplateExcluded) = 1
    /\ Cardinality(ClearedEdges(walls)) = 7

\* C7: after ShowSolution(true), successful or not, every cell the template
\* excludes is still excluded (never on-solution-path) and was never moved
\* into or pushed by the search (it has no parent index); the search starts
\* at a cell that is not excluded.
C7_SolverAvoidsExcluded ==
    (lastOp = "ShowSolution(true)")
        => /\ startCellIndex \notin TemplateExcluded
           /\ \A i \in TemplateExcluded :
                 /\ state[i] = 2
                 /\ parentIndices[i] = NoIndex

\* A successful search on a grid with an excluded cell next to the path.
C7_Witness ==
    /\ lastOp = "ShowSolution(true)" /\ lastErr = "none"
    /\ Len(MarkedChain) >= 4
    /\ \E i \in TemplateExcluded : \E d \in Dirs :
          /\ Neighbor(i, d) # NoIndex
          /\ state[Neighbor(i, d)] = 1

\* C8: an ErodeWalls step changes none of the four wall flags of an
\* excluded cell.
C8_ErodeKeepsExcluded ==
    [][(lastOp' = "ErodeWalls")
         => \A i \in TemplateExcluded : walls'[i] = walls[i]]_vars

\* Erosion has removed a wall (the cleared walls have a cycle) on a grid
\* with an excluded cell, whose four walls are all present.
C8_Witness ==
    /\ lastOp = "ErodeWalls"
    /\ TemplateExcluded # {}
    /\ Cardinality(ClearedEdges(walls))
         > Cardinality(NonExcluded)
           - Cardinality({Closure({a}, ClearedEdges(walls)) : a \in NonExcluded})
    /\ \A i \in TemplateExcluded : \A d \in Dirs : walls[i][d]

\* C9 as claimed: no RegenerateFromSeed step, the constructor's first
\* generation included, changes a wall flag of an excluded cell.
C9_Original ==
    [][(lastOp' = "RegenerateFromSeed")
         => \A i \in TemplateExcluded : walls'[i] = walls[i]]_vars

\* C9 amended: RegenerateFromSeed sets the four wall flags of every cell,
\* clears none of an excluded cell, so an excluded cell has all four walls
\* present after every call; the flags of an excluded cell are unchanged by
\* every regeneration of a constructed grid (the first generation after
\* allocation changes them from absent to present).
C9_ExcludedWallsPresent ==
    [][(lastOp' = "RegenerateFromSeed")
         => \A i \in TemplateExcluded :
               /\ \A d \in Dirs : walls'[i][d]
               /\ (pc = "ready") => (walls'[i] = walls[i])
               /\ (pc = "allocated") => (\A d \in Dirs : ~walls[i][d])]_vars

\* A regeneration of a constructed grid (it carries solution marks) with an
\* excluded cell in the middle of a row.
C9_Witness ==
    /\ pc = "ready" /\ lastOp = "RegenerateFromSeed"
    /\ \E i \in TemplateExcluded :
          /\ Neighbor(i, 0) # NoIndex /\ Neighbor(i, 2) # NoIndex
          /\ \A d \in Dirs : walls[i][d]
    /\ \E i \in Cells : state[i] = 1

\* C10: an ErodeWalls step clears exactly the wall flags that record a
\* segment that was, before the step, the only present one of the four
\* segments at some interior corner; every other flag keeps its value (no
\* wall is added, corners with 0, 2, 3 or 4 segments change nothing).
C10_ErodeExactlyDangling ==
    [][(lastOp' = "ErodeWalls")
         => \A i \in Cells : \A d \in Dirs :
               walls'[i][d] = (walls[i][d] /\ ~Dangling(walls, i, d))]_vars

\* An erosion pass on a grid with two corners has left cleared walls with
\* a cycle and a wall still standing inside the grid.
C10_Witness ==
    /\ lastOp = "ErodeWalls" /\ TemplateExcluded = {}
    /\ width = 3 /\ height = 2
    /\ Cardinality(ClearedEdges(walls)) = 6

\* The segments at the corner of c that are present in wl and absent in wl2.
RemovedAt(wl, wl2, c) ==
    {seg \in CornerSegments(c) : PresentAt(wl, seg) /\ ~PresentAt(wl2, seg)}

\* The segments present at the corner of c in wl.
PresentSegments(wl, c) == {seg \in CornerSegments(c) : PresentAt(wl, seg)}

\* C11 as claimed: an ErodeWalls step removes at most one of the four
\* segments that meet at any one interior corner.
C11_Original ==
    [][(lastOp' = "ErodeWalls")
         => \A c \in Corners :
               Cardinality(RemovedAt(walls, walls', c)) <= 1]_vars

\* C11 amended: in an ErodeWalls step a corner with exactly one present
\* segment loses that one segment, a corner with no segment loses none, and
\* every segment any corner loses was the only present segment at one of
\* its two ends before the step (so a corner with two or more segments
\* loses a segment only through the corner at the segment's other end, and
\* it can lose more than one of them in the same pass).
C11_ErodeOnlyLoneSegments ==
    [][(lastOp' = "ErodeWalls")
         => \A c \in Corners :
               /\ (Cardinality(PresentSegments(walls, c)) = 1)
                    => (RemovedAt(walls, walls', c) = PresentSegments(walls, c))
               /\ \A seg \in RemovedAt(walls, walls', c) :
                     /\ Dangling(walls, seg.read[1], seg.read[2])
                     /\ (Cardinality(PresentSegments(walls, c)) > 1)
                          => ~OnlySegment(walls, c, seg)]_vars

\* Erosion of a generated 3x3 grid with an excluded cell has taken two of
\* the segments the generation left at one corner.
C11_Witness ==
    /\ lastOp = "ErodeWalls" /\ width = 3 /\ height = 3
    /\ TemplateExcluded # {}
    /\ \E c \in Corners : Cardinality(RemovedAt(firstWalls, walls, c)) >= 2

\* The cells ShowSolution(true) marks visited before its loops start.
PreMarked == Excluded \cup {startCellIndex}

\* C12: the loops of RegenerateFromSeed and of ShowSolution(true) end within
\* their bounds.  A generation removes at most (non-excluded cells - 1)
\* walls and ends with an empty neighbor list; a search marks every cell
\* visited at most once (as many marks as cells that became visited), makes
\* only the start cell or a cell it marked the current cell, at most
\* width*height times, and ends at the end cell or with an error.
C12_LoopsBounded ==
    /\ (pc = "ready" /\ lastOp = "RegenerateFromSeed")
         => /\ loopCount.removals <= Cardinality(NonExcluded) - 1
            /\ loopCount.removals = Cardinality(ClearedEdges(walls))
            /\ neighbors = <<>>
    /\ (lastOp = "ShowSolution(true)")
         => /\ loopCount.marked
                 = Cardinality({i \in Cells : visited[i]} \ PreMarked)
            /\ loopCount.expanded <= loopCount.marked + 1
            /\ loopCount.expanded <= NumCells
            /\ (lastErr = "none") => visited[endCellIndex]

\* A search on a 3x3 grid that backtracked: it expanded more cells
\* than the path holds, after a generation that removed eight walls.
C12_Witness ==
    /\ lastOp = "ShowSolution(true)" /\ lastErr = "none"
    /\ width = 3 /\ height = 3
    /\ loopCount.removals = 8
    /\ loopCount.expanded > Len(MarkedChain)
    /\ loopCount.marked > loopCount.expanded

\* The connected regions of the non-excluded cells: the sets of cells that
\* chains of adjacent non-excluded cells join.
Regions == {Closure({a}, OpenAdjacencies) : a \in NonExcluded}

\* C13: when RegenerateFromSeed has returned, the neighbor-pair list is
\* empty and the number of cleared adjacencies is the number of
\* non-excluded cells minus the number of their connected regions: 3 of
\* the 4 adjacencies of a 2x2 grid without excluded cells.
C13_ListEmptyEdgeCount ==
    (pc = "ready" /\ lastOp = "RegenerateFromSeed")
        => /\ lastErr = "none"
           /\ Len(neighbors) = 0
           /\ Cardinality(ClearedEdges(walls))
                = Cardinality(NonExcluded) - Cardinality(Regions)
           /\ (width = 2 /\ height = 2 /\ TemplateExcluded = {})
                => /\ Cardinality(Adjacencies) = 4
                   /\ Cardinality(ClearedEdges(walls)) = 3

\* A 2x2 grid without excluded cells, regenerated with another seed than
\* the constructor's.
C13_Witness ==
    /\ pc = "ready" /\ lastOp = "RegenerateFromSeed" /\ Len(neighbors) = 0
    /\ width = 2 /\ height = 2 /\ TemplateExcluded = {}
    /\ randomSeed # seedArg
    /\ loopCount.removals = 3

\* C14: a 1x1 grid is generated without error unless its only cell is
\* excluded; the neighbor-pair list is empty, no wall was removed (the cell
\* keeps its four walls), start and end are cell 0, and ShowSolution(true)
\* succeeds with a path of zero steps that marks that cell.
C14_SingleCell ==
    (width = 1 /\ height = 1)
        => /\ (pc \in {"failed", "panicked"})
                => (ctor = "FromTemplate" /\ template[0] = 1 /\ lastOp = "allocate")
           /\ (pc = "ready")
                => /\ lastErr = "none"
                   /\ neighbors = <<>>
                   /\ loopCount.removals = 0
                   /\ \A d \in Dirs : walls[0][d]
                   /\ startCellIndex = 0 /\ endCellIndex = 0
                   /\ (lastOp = "ShowSolution(true)")
                        => /\ MarkedChain = <<0>>
                           /\ state[0] = 1
                           /\ loopCount.marked = 0
                           /\ loopCount.expanded = 1

\* A solved 1x1 grid.
C14_Witness ==
    /\ width = 1 /\ height = 1 /\ pc = "ready"
    /\ lastOp = "ShowSolution(true)" /\ lastErr = "none"
    /\ state[0] = 1 /\ parentIndices[0] = NoIndex

\* The template excludes every pixel of the middle row of a grid with an
\* odd number (three or more) of rows.
MiddleRowExcluded ==
    /\ ctor = "FromTemplate" /\ width >= 1 /\ height >= 3 /\ (height % 2) = 1
    /\ \A i \in DOMAIN template :
          ((i \div width) = (height \div 2)) => (template[i] = 1)

\* The start and end cells lie on different sides of the middle row.
EndpointsInTwoHalves ==
    /\ startCellIndex # NoIndex /\ endCellIndex # NoIndex
    /\ ((startCellIndex \div width) < (height \div 2))
         # ((endCellIndex \div width) < (height \div 2))

\* C15 as claimed: a template whose whole middle row is excluded, with start
\* and end in the two halves, never yields a generated grid: the constructor
\* fails with an error.
C15_Original ==
    (MiddleRowExcluded /\ EndpointsInTwoHalves) => (pc # "ready")

\* The end cell can be reached from the start cell through cleared walls.
EndReachable == endCellIndex \in Closure({startCellIndex}, ClearedEdges(walls))

\* C16: a ShowSolution(true) step returns an error exactly when the end
\* cell is not reachable from the start cell through cleared walls; when it
\* returns the error it changes no cell state (marks nothing) and no wall.
C16_UnreachableEnd ==
    [][(lastOp' = "ShowSolution(true)")
         => /\ (lastErr' = "error") <=> ~EndReachable
            /\ (lastErr' = "error")
                 => /\ state' = state
                    /\ walls' = walls
                    /\ \A i \in Cells : state'[i] # 1]_vars

\* A search that ended with the error after it expanded the start cell and
\* found its stack empty: the excluded middle cell cuts the end off.
C16_Witness ==
    /\ lastOp = "ShowSolution(true)" /\ lastErr = "error"
    /\ ~EndReachable
    /\ loopCount.expanded >= 1
    /\ \A i \in Cells : state[i] # 1

\* Width and height are at least 1 and so small that neither the cell count
\* nor the neighbor count of initDisjointNeighbors overflows the int.
SizeInRange ==
    /\ width >= 1 /\ height >= 1
    /\ ((width - 1) * height) + ((height - 1) * width) <= MaxInt

\* C17: with width < 1 or height < 1 the constructors return an error: no
\* grid is allocated and no generation is attempted.  With width and height
\* at least 1 and in range, NewGridMazeWithSeed never fails and returns a
\* generated grid of exactly width*height cells (a spanning tree, start at
\* cell 0 and end at the last cell).
C17_AllocationErrors ==
    /\ (width < 1 \/ height < 1)
         => /\ pc \in {"start", "failed"}
            /\ (pc = "failed") => (lastErr = "error")
            /\ lastOp # "RegenerateFromSeed"
            /\ walls = <<>>
    /\ (ctor = "WithSeed" /\ SizeInRange)
         => /\ pc \in {"start", "allocated", "ready"}
            /\ (pc # "start") => (Cardinality(DOMAIN walls) = width * height)
            /\ (pc = "ready")
                 => /\ lastOp = "RegenerateFromSeed" /\ lastErr = "none"
                    /\ neighbors = <<>>
                    /\ Closure({0}, ClearedEdges(walls)) = Cells
                    /\ Cardinality(ClearedEdges(walls)) = (width * height) - 1
                    /\ startCellIndex = 0
                    /\ endCellIndex = (width * height) - 1

\* NewGridMazeWithSeed has returned the error for a height of 0.
C17_Witness ==
    /\ ctor = "WithSeed" /\ pc = "failed" /\ lastOp = "allocate"
    /\ width = 3 /\ height = 0
    /\ walls = <<>>

\* The pixels the template marks as start and as end candidates.
StartCandidates == {i \in DOMAIN template : template[i] = 2}

EndCandidates == {i \in DOMAIN template : template[i] = 3}

\* No start candidate and an excluded first pixel; no end candidate and an
\* excluded last pixel.
NoUsableStart == (StartCandidates = {}) /\ (template[0] = 1)

NoUsableEnd == (EndCandidates = {}) /\ (template[(width * height) - 1] = 1)

\* C18: NewGridMazeFromTemplate (on a template of at least one pixel)
\* returns an error, with no grid and no generation, exactly when there is
\* no usable start or no usable end; otherwise the start cell is one of the
\* start candidates, or cell 0 without candidates, and the end cell one of
\* the end candidates, or the last cell without candidates.
C18_TemplateEndpoints ==
    (ctor = "FromTemplate" /\ width >= 1 /\ height >= 1 /\ pc # "start")
        => IF NoUsableStart \/ NoUsableEnd
           THEN /\ pc = "failed" /\ lastErr = "error" /\ lastOp = "allocate"
                /\ walls = <<>>
           ELSE /\ pc \in {"allocated", "ready"}
                /\ startCellIndex \in (IF StartCandidates = {} THEN {0}
                                       ELSE StartCandidates)
                /\ endCellIndex \in (IF EndCandidates = {} THEN {(width * height) - 1}
                                     ELSE EndCandidates)

\* The constructor has returned the error for a template with a start
\* candidate, no end candidate and an excluded last pixel.
C18_Witness ==
    /\ ctor = "FromTemplate" /\ pc = "failed"
    /\ width * height = 4
    /\ StartCandidates # {} /\ NoUsableEnd
    /\ walls = <<>>

C20_Original ==
    (width >= 1 /\ height >= 1 /\ pc # "start")
        => /\ (width * height > MaxInt) => (pc = "failed" /\ walls = <<>>)
           /\ (pc # "failed") => (Cardinality(DOMAIN walls) = width * height)

\* ---------------------------------------------------------------------
\* C21: the template classification maps every pixel colour to exactly one
\* role: black to excluded (1), a colour with R = 0, G > 200, B = 0 to start
\* candidate (2), one with R > 200, G = 0, B = 0 to end candidate (3), white
\* to normal (0), and any other colour to excluded (1), as the comment on
\* NewGridMazeFromTemplate says.  (Channels are the 8-bit values.)
DocumentedCellType(r, g, b) ==
    IF (r = 0) /\ (g = 0) /\ (b = 0) THEN 1
    ELSE IF (r = 0) /\ (g > 200) /\ (b = 0) THEN 2
    ELSE IF (r > 200) /\ (g = 0) /\ (b = 0) THEN 3
    ELSE IF (r = 255) /\ (g = 255) /\ (b = 255) THEN 0
    ELSE 1

C21_Original ==
    ((pc = "returned") /\ (args.fn = "colorToTemplateCellType"))
        => (result = DocumentedCellType(shiftChannel(args.in[1]),
                                        shiftChannel(args.in[2]),
                                        shiftChannel(args.in[3])))

\* ---------------------------------------------------------------------
\* C22: RegenerateFromSeed returns no error (and does not panic) on any
\* allocated grid, whatever cells are excluded: every entry of the neighbor
\* list has direction 2 or 3 and names two cells of the grid, so
\* neighborIndex never fails; a single row or column and cells isolated by
\* exclusions end the loop after few removals (fewer than there are
\* non-excluded cells) or none (no two adjacent non-excluded cells).
OpenPairs ==
    {e \in Adjacencies : (state[e[1]] # 2) /\ (state[e[2]] # 2)}

InGeneration ==
    lastOp \in {"initDisjointNeighbors", "getDisjointNeighbor",
                "RegenerateFromSeed"}

C22_NoGenerationError ==
    /\ pc # "panicked"
    /\ (pc = "failed") => (lastOp = "allocate")
    /\ InGeneration =>
          /\ lastErr = "none"
          /\ \A k \in 1..Len(neighbors) :
                /\ neighbors[k].neighborDirection \in {2, 3}
                /\ neighborIndex(width, neighbors[k]) # NoIndex
                /\ <<neighbors[k].baseIndex,
                      neighborIndex(width, neighbors[k]),
                      neighbors[k].neighborDirection>> \in Adjacencies
          /\ (OpenPairs = {}) => (loopCount.removals = 0)
          /\ (Excluded # Cells) =>
                (loopCount.removals < Cardinality(Cells \ Excluded))

\* A row of three cells with the middle one excluded: generation returns
\* without error and without a removal.
C22_Witness ==
    /\ pc = "ready"
    /\ lastOp = "RegenerateFromSeed"
    /\ lastErr = "none"
    /\ NumCells = 3
    /\ state[1] = 2
    /\ loopCount.removals = 0

\* ---------------------------------------------------------------------
\* C23: every call of getDisjointNeighbor on a non-empty list either
\* reports done or returns an entry of the list whose two cells are in
\* different sets; when the first sample fails, the list is compacted to
\* exactly its entries whose two cells have different roots (each kept
\* once), done is reported iff none is left, and otherwise the second
\* sample succeeds.
DifferentRoots(parent, n) ==
    ~sameSet(parent, n.baseIndex, neighborIndex(width, n)).same

Entries(nbrs) == {nbrs[k] : k \in 1..Len(nbrs)}

C23_DisjointPick ==
    [][((pc = "generating") /\ (lastOp' = "getDisjointNeighbor")) =>
         /\ ~result'.err
         /\ result'.done \/ (result'.pick # nilNeighbor)
         /\ ~result'.done =>
               /\ result'.pick \in Entries(neighbors)
               /\ DifferentRoots(djSet.parent, result'.pick)
         /\ result'.done => result'.retried
         /\ IF result'.retried
            THEN /\ Entries(neighbors') =
                       {n \in Entries(neighbors) :
                           DifferentRoots(djSet.parent, n)}
                 /\ Len(neighbors') = Cardinality(Entries(neighbors'))
                 /\ result'.done <=> (Len(neighbors') = 0)
            ELSE neighbors' = neighbors]_vars

\* A call whose first sample failed, whose compaction removed some entries
\* and kept others, and whose second sample returned a pair.
C23_Witness ==
    /\ lastOp = "getDisjointNeighbor"
    /\ result.retried
    /\ ~result.done
    /\ result.pick # nilNeighbor
    /\ Len(neighbors) >= 2
    /\ Len(neighbors) + loopCount.removals < Cardinality(OpenPairs)

\* ---------------------------------------------------------------------
\* C24: at every iteration of the generation loop two non-excluded cells
\* have the same disjoint-set root iff they are connected through cleared
\* walls; a wall is removed only between two cells that were not yet
\* connected, so no removal closes a cycle (the cleared walls form a
\* forest: their number plus the number of components is the number of
\* cells).
RootOf(i) == findSet(djSet.parent, i).root

Component(i) == Closure({i}, ClearedEdges(walls))

C24_RootsAreComponents ==
    /\ [](InGeneration =>
            /\ \A a, b \in Cells \ Excluded :
                  (RootOf(a) = RootOf(b)) <=> (b \in Component(a))
            /\ Cardinality(ClearedEdges(walls))
                  + Cardinality({Component(i) : i \in Cells})
                  = Cardinality(Cells))
    /\ [][((pc = "generating") /\ (walls' # walls)) =>
            \E e \in Adjacencies \ ClearedEdges(walls) :
               /\ ClearedEdges(walls') = ClearedEdges(walls) \cup {e}
               /\ e[2] \notin Component(e[1])
               /\ state[e[1]] # 2
               /\ state[e[2]] # 2]_vars

\* The loop under way: some walls removed, two distinct cells already in
\* one set and two non-excluded cells still in different sets.
C24_Witness ==
    /\ pc = "generating"
    /\ loopCount.removals >= 2
    /\ Len(neighbors) # 0
    /\ \E a, b \in Cells \ Excluded : (a # b) /\ (RootOf(a) = RootOf(b))
    /\ \E a, b \in Cells \ Excluded : RootOf(a) # RootOf(b)

\* ---------------------------------------------------------------------
\* The root of node i in the forest parent, by following the parent links
\* (no compression), and the set of the nodes with the same root.
RECURSIVE RootIn(_, _)
RootIn(parent, i) == IF parent[i] = i THEN i ELSE RootIn(parent, parent[i])

SetOf(parent, i) == {j \in DOMAIN parent : RootIn(parent, j) = RootIn(parent, i)}

\* The nodes from i up to its root.
RECURSIVE PathFrom(_, _)
PathFrom(parent, i) ==
    IF parent[i] = i THEN {i} ELSE {i} \cup PathFrom(parent, parent[i])

UnionOfDifferentSets ==
    /\ pc = "sets"
    /\ args # <<>>
    /\ args.fn = "union"
    /\ RootIn(args.dj.parent, args.in[1]) # RootIn(args.dj.parent, args.in[2])

\* C25: union(x, y) on two different sets puts the root of lower rank under
\* the root of higher rank, and on equal ranks the root of x under the root
\* of y, whose rank then grows by one (no other rank changes); afterwards
\* x and y have the same root, their set is the union of the two sets and
\* every other set is as before.
C25_UnionMerges ==
    UnionOfDifferentSets =>
       LET before == args.dj
           rx == RootIn(before.parent, args.in[1])
           ry == RootIn(before.parent, args.in[2])
           merged == SetOf(before.parent, rx) \cup SetOf(before.parent, ry)
       IN /\ (before.rank[rx] > before.rank[ry]) =>
                /\ djSet.parent[ry] = rx
                /\ djSet.parent[rx] = rx
                /\ djSet.rank = before.rank
          /\ (before.rank[rx] < before.rank[ry]) =>
                /\ djSet.parent[rx] = ry
                /\ djSet.parent[ry] = ry
                /\ djSet.rank = before.rank
          /\ (before.rank[rx] = before.rank[ry]) =>
                /\ djSet.parent[rx] = ry
                /\ djSet.parent[ry] = ry
                /\ djSet.rank = [before.rank EXCEPT ![ry] = @ + 1]
          /\ RootIn(djSet.parent, args.in[1]) = RootIn(djSet.parent, args.in[2])
          /\ SetOf(djSet.parent, args.in[1]) = merged
          /\ \A i \in Nodes \ merged :
                /\ SetOf(djSet.parent, i) = SetOf(before.parent, i)
                /\ RootIn(djSet.parent, i) = RootIn(before.parent, i)

\* A union of two sets of two nodes each whose roots have different ranks.
C25_Witness ==
    /\ UnionOfDifferentSets
    /\ args.dj.rank[RootIn(args.dj.parent, args.in[1])]
         > args.dj.rank[RootIn(args.dj.parent, args.in[2])]
    /\ Cardinality(SetOf(args.dj.parent, args.in[1])) = 2
    /\ Cardinality(SetOf(args.dj.parent, args.in[2])) = 2
    /\ Cardinality(SetOf(djSet.parent, args.in[1])) = 4

\* ---------------------------------------------------------------------
UnionWithinOneSet ==
    /\ pc = "sets"
    /\ args # <<>>
    /\ args.fn = "union"
    /\ RootIn(args.dj.parent, args.in[1]) = RootIn(args.dj.parent, args.in[2])

\* Every node has the root it had before the last call.
RootsUnchanged ==
    \A i \in Nodes : RootIn(djSet.parent, i) = RootIn(args.dj.parent, i)

\* C26 as stated: union on two elements that are already in one set is a
\* no-op: the partition and every root stay as they were and no node's
\* rank changes.
C26_Original ==
    UnionWithinOneSet => (RootsUnchanged /\ (djSet.rank = args.dj.rank))

\* ---------------------------------------------------------------------
FindSetCalled ==
    /\ pc = "sets"
    /\ args # <<>>
    /\ args.fn = "findSet"

\* The edges node -- parent of the forest, and the nodes joined to i by them.
ParentEdges(parent) == {<<i, parent[i], 0>> : i \in DOMAIN parent}

TreeOf(parent, i) == Closure({i}, ParentEdges(parent))

\* C27: find(x) returns the root of x's tree, the one node on the path from
\* x that is its own parent (one per tree); it changes neither the
\* partition nor a rank; afterwards every node that was on the path from x
\* to the root has the root as its parent and every other node has the
\* parent it had; and two nodes are in one set iff find returns the same
\* node for both.
C27_FindSet ==
    /\ (pc = "sets") =>
          \A a, b \in Nodes :
             /\ (findSet(djSet.parent, a).root = findSet(djSet.parent, b).root)
                   <=> (b \in TreeOf(djSet.parent, a))
             /\ Cardinality({r \in TreeOf(djSet.parent, a) :
                                djSet.parent[r] = r}) = 1
    /\ FindSetCalled =>
          /\ result = RootIn(args.dj.parent, args.in[1])
          /\ args.dj.parent[result] = result
          /\ result \in PathFrom(args.dj.parent, args.in[1])
          /\ RootsUnchanged
          /\ djSet.rank = args.dj.rank
          /\ \A i \in Nodes :
                djSet.parent[i] =
                   IF i \in PathFrom(args.dj.parent, args.in[1]) THEN result
                   ELSE args.dj.parent[i]

\* A find on a node two links below its root, in a tree with a branch that
\* is not on the path.
C27_Witness ==
    /\ FindSetCalled
    /\ Cardinality(PathFrom(args.dj.parent, args.in[1])) = 3
    /\ Cardinality(SetOf(args.dj.parent, args.in[1])) = 4
    /\ djSet.parent # args.dj.parent

\* ---------------------------------------------------------------------
SetDirRankingCalled ==
    /\ pc = "returned"
    /\ args.fn = "setDirRanking"

\* The offsets to the target of a setDirRanking call (in: currentCol,
\* currentRow, targetCol, targetRow), and their magnitudes.
ColOffset == args.in[3] - args.in[1]

RowOffset == args.in[4] - args.in[2]

Magnitude(x) == IF x < 0 THEN 0 - x ELSE x

\* The move along an axis toward the target; left (0) and up (1) when the
\* offset on the axis is zero.
HorizontalToward == IF ColOffset > 0 THEN 2 ELSE 0

VerticalToward == IF RowOffset > 0 THEN 3 ELSE 1

\* C28: setDirRanking fills the ranking with a permutation of the four
\* directions.  When the row offset is larger in magnitude than the column
\* offset, the vertical move toward the target has rank 0, the opposite
\* vertical move rank 3 and the horizontal moves ranks 1 and 2, the one
\* toward the target first; otherwise the horizontal move toward the target
\* has rank 0, the opposite one rank 3 and the vertical moves ranks 1 and
\* 2, the one toward the target first.  With a zero offset on an axis left
\* comes before right and up before down.
C28_DirRanking ==
    SetDirRankingCalled =>
       /\ {result[k] : k \in 1..4} = Dirs
       /\ result = IF Magnitude(RowOffset) > Magnitude(ColOffset)
                   THEN <<VerticalToward, HorizontalToward,
                          Opposite(HorizontalToward), Opposite(VerticalToward)>>
                   ELSE <<HorizontalToward, VerticalToward,
                          Opposite(VerticalToward), Opposite(HorizontalToward)>>

\* The target two rows below in the same column: down, left, right, up.
C28_Witness ==
    /\ SetDirRankingCalled
    /\ RowOffset = 2
    /\ ColOffset = 0
    /\ result = <<3, 0, 2, 1>>

\* ---------------------------------------------------------------------
\* C29 as stated: after a ShowSolution(true) that returned no error the
\* on-solution-path cells are exactly the cells of the one simple path the
\* call found from the start cell to the end cell (the chain of parent
\* indices from the end cell) and no other cell is marked, whatever calls
\* of RegenerateFromSeed, ErodeWalls and ShowSolution came before.
C29_Original ==
    (lastOp = "ShowSolution(true)" /\ lastErr = "none")
        => /\ MarkedChain[1] = endCellIndex
           /\ MarkedChain[Len(MarkedChain)] = startCellIndex
           /\ {i \in Cells : state[i] = 1}
                 = {MarkedChain[j] : j \in 1..Len(MarkedChain)}

\* ---------------------------------------------------------------------
\* C30: a ShowSolution call, with either flag and whether it succeeds or
\* fails, changes no wall flag, neither the start nor the end index and not
\* the seed, and changes cell states only between normal and
\* on-solution-path (an excluded cell stays excluded, no cell becomes
\* excluded); an ErodeWalls call changes no cell state, neither index and
\* not the seed.
C30_FrameConditions ==
    [][/\ (lastOp' \in {"ShowSolution(true)", "ShowSolution(false)"}) =>
            /\ walls' = walls
            /\ startCellIndex' = startCellIndex
            /\ endCellIndex' = endCellIndex
            /\ randomSeed' = randomSeed
            /\ DOMAIN state' = DOMAIN state
            /\ \A i \in Cells :
                  IF state[i] = 2 THEN state'[i] = 2 ELSE state'[i] \in {0, 1}
       /\ (lastOp' = "ErodeWalls") =>
            /\ state' = state
            /\ startCellIndex' = startCellIndex
            /\ endCellIndex' = endCellIndex
            /\ randomSeed' = randomSeed]_vars

\* A path shown on an eroded maze that has an excluded cell.
C30_Witness ==
    /\ lastOp = "ShowSolution(true)"
    /\ lastErr = "none"
    /\ walls # firstWalls
    /\ Excluded # {}
    /\ Cardinality({i \in Cells : state[i] = 1}) >= 3

====
